---- MODULE Spec2Model ----
(***************************************************************************)
(* Model of rrna_norm.py: normalisation of a 16S count table by rRNA copy  *)
(* number.  The run is rrnaNorm() followed by normalise():                 *)
(*   _curate_db     reference db text  -> taxa_to_rrna_copy_dict           *)
(*   _curate_input  count table index  -> input_taxa_map                   *)
(*   normalise      divide rows, rescale columns, write the table          *)
(*                                                                         *)
(* Text is modelled as a sequence of one-character strings, so that the    *)
(* regular expressions, rstrip and ';'.join act on characters as in the    *)
(* code.  Floating point values are modelled as exact fractions [n, d]     *)
(* in lowest terms; 0/0 is the value NaN and x/0 (x > 0) the value Inf.    *)
(***************************************************************************)
EXTENDS Integers, Sequences, FiniteSets, TLC

VARIABLES
    db_file,                 \* the lines of --db_path (input, never written)
    input_file,              \* the table at --input_path (input, never written)
    pc,                      \* position of the run
    error,                   \* the exception that ended the run, or "none"
    taxa_to_rrna_copy_dict,  \* self.taxa_to_rrna_copy_dict
    already_present_dict,    \* _curate_db's already_present_dict, as printed
    count_added,             \* _curate_db's count_added, as printed
    count_df,                \* self.count_df
    input_taxa_map,          \* self.input_taxa_map
    row_i,                   \* loop position in _curate_input / normalise
    grand_total,             \* normalise's grand_total
    OTUs,                    \* normalise's OTUs (the dropped last column)
    output_file,             \* <<the table written to --output_path>>, or NoFile
    raw,                     \* a raw taxonomy string handed to the key parser
    key_items_list           \* the key parser's result for raw

vars == <<db_file, input_file, pc, error, taxa_to_rrna_copy_dict,
          already_present_dict, count_added, count_df, input_taxa_map,
          row_i, grand_total, OTUs, output_file, raw, key_items_list>>

(***************************************************************************)
(* Characters and text helpers                                             *)
(***************************************************************************)

\* the characters of the model's texts that \w matches
WordChars == {"k", "p", "c", "o", "f", "g", "s", "_",
              "A", "B", "C", "D", "E", "F", "G", "x"}

\* the characters of the model's texts that \s matches
SpaceChars == {" "}

\* the class [\w\s] of every rank expression
LabelChars == WordChars \cup SpaceChars

Max(S) == CHOOSE x \in S : \A y \in S : y <= x

Min(S) == CHOOSE x \in S : \A y \in S : x <= y

\* str.rstrip(): trailing whitespace removed
RECURSIVE rstrip(_)
rstrip(s) ==
    IF Len(s) > 0 /\ s[Len(s)] \in SpaceChars
    THEN rstrip(SubSeq(s, 1, Len(s) - 1))
    ELSE s

\* ';'.join(items)
RECURSIVE join(_)
join(items) ==
    IF Len(items) = 0 THEN <<>>
    ELSE IF Len(items) = 1 THEN items[1]
    ELSE items[1] \o <<";">> \o join(Tail(items))

\* list[:n] for 0 <= n
Prefix(items, n) == SubSeq(items, 1, n)

(***************************************************************************)
(* The rank expressions (_generate_taxa_reg_exs) and re.search             *)
(***************************************************************************)

\* tag__\[?([\w\s]+)(?=\]?;) for the first six ranks; the species
\* expression ends (?=\]?), a lookahead that always succeeds
taxa_reg_exs ==
    << [tag |-> <<"k", "_", "_">>, semicolon |-> TRUE],
       [tag |-> <<"p", "_", "_">>, semicolon |-> TRUE],
       [tag |-> <<"c", "_", "_">>, semicolon |-> TRUE],
       [tag |-> <<"o", "_", "_">>, semicolon |-> TRUE],
       [tag |-> <<"f", "_", "_">>, semicolon |-> TRUE],
       [tag |-> <<"g", "_", "_">>, semicolon |-> TRUE],
       [tag |-> <<"s", "_", "_">>, semicolon |-> FALSE] >>

\* length of the run of [\w\s] characters of s that starts at position p
RECURSIVE RunLen(_, _)
RunLen(s, p) ==
    IF p <= Len(s) /\ s[p] \in LabelChars THEN 1 + RunLen(s, p + 1) ELSE 0

\* the lookahead of reg_ex at position p of s: (?=\]?;) or (?=\]?)
Lookahead(reg_ex, s, p) ==
    IF reg_ex.semicolon
    THEN \/ p <= Len(s) /\ s[p] = ";"
         \/ p + 1 <= Len(s) /\ s[p] = "]" /\ s[p + 1] = ";"
    ELSE TRUE

NoMatch == [found |-> FALSE, group |-> <<>>]

\* the group ([\w\s]+) started at position st: greedy, backtracking to the
\* longest run after which the lookahead succeeds
GroupAt(reg_ex, s, st) ==
    LET ok == {l \in 1..RunLen(s, st) : Lookahead(reg_ex, s, st + l)}
    IN  IF ok = {} THEN NoMatch
        ELSE [found |-> TRUE, group |-> SubSeq(s, st, st + Max(ok) - 1)]

\* reg_ex matched with its tag at position i: \[? takes the bracket when
\* there is one, and gives it back when the rest then fails
MatchAt(reg_ex, s, i) ==
    IF i + 2 <= Len(s) /\ SubSeq(s, i, i + 2) = reg_ex.tag
    THEN LET j == i + 3
             taken == IF j <= Len(s) /\ s[j] = "["
                      THEN GroupAt(reg_ex, s, j + 1)
                      ELSE NoMatch
         IN  IF taken.found THEN taken ELSE GroupAt(reg_ex, s, j)
    ELSE NoMatch

\* reg_ex.search(s): the match at the leftmost position that has one
search(reg_ex, s) ==
    LET at == {i \in 1..Len(s) : MatchAt(reg_ex, s, i).found}
    IN  IF at = {} THEN NoMatch ELSE MatchAt(reg_ex, s, Min(at))

\* _curate_db's loop over the rank expressions: the groups as matched,
\* stopping at the first expression that does not match
RECURSIVE DbKeyItemsFrom(_, _)
DbKeyItemsFrom(r, s) ==
    IF r > Len(taxa_reg_exs) THEN <<>>
    ELSE LET match == search(taxa_reg_exs[r], s)
         IN  IF match.found
             THEN <<match.group>> \o DbKeyItemsFrom(r + 1, s)
             ELSE <<>>

DbKeyItems(s) == DbKeyItemsFrom(1, s)

\* the loop with `continue` in place of `break`: a rank that does not match is
\* skipped and the later ranks are still collected
RECURSIVE InputKeyItemsNoBreak(_, _)
InputKeyItemsNoBreak(r, s) ==
    IF r > Len(taxa_reg_exs) THEN <<>>
    ELSE LET match == search(taxa_reg_exs[r], s)
         IN  IF match.found
             THEN <<rstrip(match.group)>> \o InputKeyItemsNoBreak(r + 1, s)
             ELSE InputKeyItemsNoBreak(r + 1, s)

\* _curate_input's loop over the rank expressions: each group rstrip()ped,
\* stopping at the first expression that does not match
RECURSIVE InputKeyItemsFrom(_, _)
InputKeyItemsFrom(r, s) ==
    IF r > Len(taxa_reg_exs) THEN <<>>
    ELSE LET match == search(taxa_reg_exs[r], s)
         IN  IF match.found
             THEN <<rstrip(match.group)>> \o InputKeyItemsFrom(r + 1, s)
             ELSE <<>>

InputKeyItems(s) == InputKeyItemsFrom(1, s)

(***************************************************************************)
(* Numbers: a float is an exact fraction [n, d] in lowest terms             *)
(***************************************************************************)

RECURSIVE GCD(_, _)
GCD(a, b) == IF b = 0 THEN a ELSE GCD(b, a % b)

NaN == [n |-> 0, d |-> 0]

Inf == [n |-> 1, d |-> 0]

Frac(n, d) == LET g == GCD(n, d) IN [n |-> n \div g, d |-> d \div g]

\* a / b as the data frame computes it: 0/0 is NaN, x/0 is inf
FDiv(a, b) ==
    IF a = NaN \/ b = NaN THEN NaN
    ELSE IF a = Inf THEN (IF b = Inf THEN NaN ELSE Inf)
    ELSE IF b = Inf THEN Frac(0, 1)
    ELSE IF b.n = 0 THEN (IF a.n = 0 THEN NaN ELSE Inf)
    ELSE Frac(a.n * b.d, a.d * b.n)

\* a + b, for the finite values that sum() meets here: the counts are not
\* negative and the copy numbers are positive, so no cell is NaN or inf
\* before the columns are rescaled
FAdd(a, b) ==
    IF a.d = 0 THEN a
    ELSE IF b.d = 0 THEN b
    ELSE Frac(a.n * b.d + b.n * a.d, a.d * b.d)

(***************************************************************************)
(* _curate_db                                                              *)
(***************************************************************************)

\* A line of the db file is [taxa, copy]: its first tab-separated field and
\* its second, which is the text of a number (Num(n), for the number n), a
\* text float() rejects (NotANumber), or missing (NoField).
Num(n) == [kind |-> "number", value |-> n]

NotANumber == [kind |-> "not_a_number", value |-> 0]

NoField == [kind |-> "no_field", value |-> 0]

\* --output_path holds no file: output_file is <<>>, or <<df>> once df is
\* written
NoFile == <<>>

None == "None"

\* line[0] == 'k' (lines 93-95)
KeepLine(line) == Len(line.taxa) > 0 /\ line.taxa[1] = "k"

keep_input_file(lines) == SelectSeq(lines, KeepLine)

\* taxa_str_to_correction_factor[key] = value on an insertion-ordered dict,
\* held as a sequence of [k, v]: a key already there keeps its position and
\* takes the new value
DictPut(d, key, value) ==
    IF \E i \in 1..Len(d) : d[i].k = key
    THEN [i \in 1..Len(d) |->
             IF d[i].k = key THEN [k |-> key, v |-> value] ELSE d[i]]
    ELSE Append(d, [k |-> key, v |-> value])

\* lines 97-100: the raw taxonomy text of each kept line mapped to float()
\* of its second field
RECURSIVE taxa_str_to_correction_factor(_)
taxa_str_to_correction_factor(kept) ==
    IF Len(kept) = 0 THEN <<>>
    ELSE LET last == kept[Len(kept)]
         IN  DictPut(taxa_str_to_correction_factor(Prefix(kept, Len(kept) - 1)),
                     last.taxa, Frac(last.copy.value, 1))

\* the conversion guarded by an except clause that swallows the error
FloatErrorSwallowed(kept) == "none"

\* the exception lines 97-100 raise on the first kept line that has no
\* second field or one that float() rejects; "none" when there is none
FloatError(kept) ==
    LET bad == {i \in 1..Len(kept) : kept[i].copy.kind # "number"}
    IN  IF bad = {} THEN "none"
        ELSE IF kept[Min(bad)].copy = NoField THEN "IndexError"
        ELSE "ValueError"

\* already_present_dict[key] += 1 on defaultdict(lambda: 1) (lines 106, 128)
Increment(present, key) ==
    IF key \in DOMAIN present
    THEN [present EXCEPT ![key] = @ + 1]
    ELSE (key :> 2) @@ present

\* one pass of the loop of lines 109-128 on entry e of k_list
CurateEntry(st, e) ==
    LET key_items == DbKeyItems(e.k)
        str_key_to_add == join(key_items)
    IN  IF key_items = <<>> THEN st
        ELSE IF str_key_to_add \notin DOMAIN st.dict
        THEN [st EXCEPT !.dict = (str_key_to_add :> e.v) @@ st.dict,
                        !.added = @ + 1]
        ELSE [st EXCEPT !.present = Increment(st.present, str_key_to_add)]

\* lines 105-128: the loop over k_list, in the dict's order
RECURSIVE CurateLoop(_, _)
CurateLoop(k_list, n) ==
    IF n = 0 THEN [dict |-> <<>>, present |-> <<>>, added |-> 0]
    ELSE CurateEntry(CurateLoop(k_list, n - 1), k_list[n])

\* _curate_db (lines 78-138), then self.count_df = None (line 16)
CurateDb ==
    /\ pc = "curate_db"
    /\ LET kept == keep_input_file(db_file)
           err == FloatError(kept)
       IN  IF err # "none"
           THEN /\ pc' = "aborted"
                /\ error' = err
                /\ UNCHANGED <<taxa_to_rrna_copy_dict, already_present_dict,
                               count_added>>
           ELSE LET d == taxa_str_to_correction_factor(kept)
                    st == CurateLoop(d, Len(d))
                IN  /\ taxa_to_rrna_copy_dict' = st.dict
                    /\ already_present_dict' = st.present
                    /\ count_added' = st.added
                    /\ pc' = "read_input"
                    /\ error' = "none"
    /\ UNCHANGED <<db_file, input_file, count_df, input_taxa_map, row_i,
                   grand_total, OTUs, output_file, raw, key_items_list>>

(***************************************************************************)
(* _curate_input                                                           *)
(***************************************************************************)

\* lines 157-159: read_csv and set_index('Taxonomy'): the table in memory,
\* each count a float
ReadInput ==
    /\ pc = "read_input"
    /\ count_df' = input_file
    /\ row_i' = 1
    /\ pc' = "map_taxa"
    /\ UNCHANGED <<db_file, input_file, error, taxa_to_rrna_copy_dict,
                   already_present_dict, count_added, input_taxa_map,
                   grand_total, OTUs, output_file, raw, key_items_list>>

\* the loop as range(-1, -len(key_items_list) + 1, -1): the prefix of one
\* rank is never tried
RECURSIVE ShortMatchStopsEarly(_, _, _)
ShortMatchStopsEarly(key_items, i, dict) ==
    IF i <= -Len(key_items) + 1 THEN [found |-> FALSE, key |-> <<>>]
    ELSE LET new_str_to_test == join(Prefix(key_items, Len(key_items) + i))
         IN  IF new_str_to_test \in DOMAIN dict
             THEN [found |-> TRUE, key |-> new_str_to_test]
             ELSE ShortMatchStopsEarly(key_items, i - 1, dict)

\* lines 184-190: for i in range(-1, -len(key_items_list), -1), the first
\* ';'.join(key_items_list[:i]) that is in the dict
RECURSIVE ShortMatch(_, _, _)
ShortMatch(key_items, i, dict) ==
    IF i <= -Len(key_items) THEN [found |-> FALSE, key |-> <<>>]
    ELSE LET new_str_to_test == join(Prefix(key_items, Len(key_items) + i))
         IN  IF new_str_to_test \in DOMAIN dict
             THEN [found |-> TRUE, key |-> new_str_to_test]
             ELSE ShortMatch(key_items, i - 1, dict)

\* the mapping put in without the test of line 181: the full key is stored
\* whether or not the dict has it
ResolveUnchecked(key_items, dict) ==
    [found |-> TRUE, key |-> join(key_items)]

\* lines 180-197 for a non-empty key_items_list: the key to map to, if any
Resolve(key_items, dict) ==
    LET str_key_to_add == join(key_items)
    IN  IF str_key_to_add \notin DOMAIN dict
        THEN ShortMatch(key_items, -1, dict)
        ELSE [found |-> TRUE, key |-> str_key_to_add]

\* one pass of the loop of lines 163-199, on the index value at row_i
MapTaxon ==
    /\ pc = "map_taxa"
    /\ row_i <= Len(count_df.index)
    /\ LET taxa_a == count_df.index[row_i]
           key_items == InputKeyItems(taxa_a)
       IN  IF taxa_a \in DOMAIN input_taxa_map
           THEN /\ row_i' = row_i + 1
                /\ UNCHANGED <<pc, error, input_taxa_map>>
           ELSE IF key_items = <<>>
           THEN /\ pc' = "aborted"
                /\ error' = "RuntimeError"
                /\ UNCHANGED <<row_i, input_taxa_map>>
           ELSE LET r == Resolve(key_items, taxa_to_rrna_copy_dict)
                IN  /\ input_taxa_map' =
                           IF r.found THEN (taxa_a :> r.key) @@ input_taxa_map
                           ELSE input_taxa_map
                    /\ row_i' = row_i + 1
                    /\ UNCHANGED <<pc, error>>
    /\ UNCHANGED <<db_file, input_file, taxa_to_rrna_copy_dict,
                   already_present_dict, count_added, count_df, grand_total,
                   OTUs, output_file, raw, key_items_list>>

(***************************************************************************)
(* normalise                                                               *)
(***************************************************************************)

RECURSIVE SumValues(_, _)
SumValues(dict, keys) ==
    IF keys = {} THEN Frac(0, 1)
    ELSE LET k == CHOOSE x \in keys : TRUE
         IN  FAdd(dict[k], SumValues(dict, keys \ {k}))

\* sum(dict.values()) / len(dict) (line 49), for a non-empty dict
GrandAverage(dict) ==
    FDiv(SumValues(dict, DOMAIN dict), Frac(Cardinality(DOMAIN dict), 1))

\* the loop of _curate_input is over and the constructor returns; lines
\* 47-57 of normalise: the grand average, and the last column taken off
NormaliseStart ==
    /\ pc = "map_taxa"
    /\ row_i > Len(count_df.index)
    /\ IF DOMAIN taxa_to_rrna_copy_dict = {}
       THEN /\ pc' = "aborted"
            /\ error' = "ZeroDivisionError"
            /\ UNCHANGED <<count_df, row_i, grand_total, OTUs>>
       ELSE LET ncol == Len(count_df.columns)
            IN  /\ grand_total' = GrandAverage(taxa_to_rrna_copy_dict)
                /\ OTUs' = [name |-> count_df.columns[ncol],
                            values |-> [i \in 1..Len(count_df.index) |->
                                           count_df.data[i][ncol]]]
                /\ count_df' =
                       [count_df EXCEPT
                           !.columns = Prefix(@, ncol - 1),
                           !.data = [i \in 1..Len(count_df.index) |->
                                        Prefix(@[i], ncol - 1)]]
                /\ row_i' = 1
                /\ pc' = "divide"
                /\ UNCHANGED error
    /\ UNCHANGED <<db_file, input_file, taxa_to_rrna_copy_dict,
                   already_present_dict, count_added, input_taxa_map,
                   output_file, raw, key_items_list>>

\* the divisor of lines 60-63 for an index value
Divisor(name) ==
    IF name \notin DOMAIN input_taxa_map
    THEN grand_total
    ELSE taxa_to_rrna_copy_dict[input_taxa_map[name]]

\* the rows addressed by label, df.loc[name] /= v: every row that carries
\* the index value of row `at` is divided
DivideByLabel(df, at, v) ==
    [df EXCEPT !.data = [i \in 1..Len(df.index) |->
        IF df.index[i] = df.index[at]
        THEN [j \in 1..Len(@[i]) |-> FDiv(@[i][j], v)]
        ELSE @[i]]]

\* row `at` of df divided by v: df.iloc[at] /= v
DivideAt(df, at, v) ==
    [df EXCEPT !.data[at] = [j \in 1..Len(@) |-> FDiv(@[j], v)]]

\* one pass of the loop of lines 58-63: the row at position row_i
DivideRow ==
    /\ pc = "divide"
    /\ row_i <= Len(count_df.index)
    /\ count_df' = DivideAt(count_df, row_i, Divisor(count_df.index[row_i]))
    /\ row_i' = row_i + 1
    /\ UNCHANGED <<db_file, input_file, pc, error, taxa_to_rrna_copy_dict,
                   already_present_dict, count_added, input_taxa_map,
                   grand_total, OTUs, output_file, raw, key_items_list>>

\* df.sum(axis=0): the sum of column j over the rows 1..n
RECURSIVE ColumnSum(_, _, _)
ColumnSum(df, j, n) ==
    IF n = 0 THEN Frac(0, 1)
    ELSE FAdd(ColumnSum(df, j, n - 1), df.data[n][j])

\* df.div(df.sum(axis=0), axis=1) (line 67)
Rescale(df) ==
    [df EXCEPT !.data = [i \in 1..Len(df.index) |->
        [j \in 1..Len(df.columns) |->
            FDiv(df.data[i][j], ColumnSum(df, j, Len(df.index)))]]]

\* the last column put back with df.insert(0, ...): first, not last
ReattachFirst(df, col) ==
    [df EXCEPT !.columns = <<col.name>> \o @,
               !.data = [i \in 1..Len(df.index) |->
                            <<col.values[i]>> \o @[i]]]

\* df[last_col_name] = OTUs (line 70): a new column, put last
Reattach(df, col) ==
    [df EXCEPT !.columns = Append(@, col.name),
               !.data = [i \in 1..Len(df.index) |->
                            Append(@[i], col.values[i])]]

\* lines 65-74: rescale, put the last column back, write the table
RescaleAndWrite ==
    /\ pc = "divide"
    /\ row_i > Len(count_df.index)
    /\ count_df' = Reattach(Rescale(count_df), OTUs)
    /\ output_file' = <<count_df'>>
    /\ pc' = "done"
    /\ UNCHANGED <<db_file, input_file, error, taxa_to_rrna_copy_dict,
                   already_present_dict, count_added, input_taxa_map, row_i,
                   grand_total, OTUs, raw, key_items_list>>

Next ==
    \/ CurateDb
    \/ ReadInput
    \/ MapTaxon
    \/ NormaliseStart
    \/ DivideRow
    \/ RescaleAndWrite

(***************************************************************************)
(* Inputs                                                                  *)
(***************************************************************************)

Tag(c) == <<c, "_", "_">>

Rank(c, label) == Tag(c) \o label \o <<";">>

\* "k__A;"
T_A == Rank("k", <<"A">>)

\* "k__A;p__B;"
T_AB == T_A \o Rank("p", <<"B">>)

\* "k__A;p__B;c__C;"
T_ABC == T_AB \o Rank("c", <<"C">>)

\* "k__A;p__B ;c__C;": a label followed by a blank
T_ABsC == T_A \o Rank("p", <<"B", " ">>) \o Rank("c", <<"C">>)

\* "k__[A];p__B;": a bracketed label
T_bAB == Tag("k") \o <<"[", "A", "]", ";">> \o Rank("p", <<"B">>)

\* "k__A;c__C;": no phylum
T_AC == T_A \o Rank("c", <<"C">>)

\* "k__B;"
T_B == Rank("k", <<"B">>)

\* "p__B;": no kingdom, and no leading k
T_pB == Rank("p", <<"B">>)

\* "kx": a leading k and no rank at all
T_kx == <<"k", "x">>

\* "k__A;p__B;c__C;o__D;f__E;g__F;s__G ": all seven ranks, the species
\* followed by a blank
T_full == T_ABC \o Rank("o", <<"D">>) \o Rank("f", <<"E">>)
              \o Rank("g", <<"F">>) \o Tag("s") \o <<"G", " ">>

\* "k__A;p__B;c__C;o__D;f__E;g__F;s__x": the same to the genus
T_fullx == T_ABC \o Rank("o", <<"D">>) \o Rank("f", <<"E">>)
               \o Rank("g", <<"F">>) \o Tag("s") \o <<"x">>

SeqsUpTo(S, n) == UNION {[1..m -> S] : m \in 0..n}

SampleCols == <<"S1", "S2">>

\* the table with the index values `index` and the counts `counts` (a row
\* of counts per index value), and a last column of OTU identifiers
MakeTable(index, counts) ==
    [index |-> index,
     columns |-> Append(SampleCols, "OTU"),
     data |-> [i \in 1..Len(index) |->
                  Append([j \in 1..Len(SampleCols) |-> Frac(counts[i][j], 1)],
                         <<"OTU", i>>)]]

DbLines(taxa, copies) == {[taxa |-> t, copy |-> c] : t \in taxa, c \in copies}

\* the state when rrnaNorm() is entered with the two files
Start(dbs, tables) ==
    /\ db_file \in dbs
    /\ input_file \in tables
    /\ pc = "curate_db"
    /\ error = "none"
    /\ taxa_to_rrna_copy_dict = <<>>
    /\ already_present_dict = <<>>
    /\ count_added = 0
    /\ count_df = None
    /\ input_taxa_map = <<>>
    /\ row_i = 0
    /\ grand_total = None
    /\ OTUs = None
    /\ output_file = NoFile
    /\ raw = <<>>
    /\ key_items_list = <<>>

\* ---- reconciliation: many reference files, many index columns ----

MaxDbLines == 2

MaxRows == 2

\* T_kx is kept and its number is bad; T_pB is not kept, so its number is
\* never read
RefLines ==
    DbLines({T_A, T_AB, T_ABsC, T_full}, {Num(2)})
        \cup {[taxa |-> T_kx, copy |-> NotANumber],
              [taxa |-> T_pB, copy |-> NotANumber]}

InputTaxa == {T_AB, T_ABC, T_ABsC, T_AC, T_full, T_kx}

Init ==
    Start(SeqsUpTo(RefLines, MaxDbLines),
          {MakeTable(index, [i \in 1..Len(index) |-> <<1, 1>>]) :
              index \in SeqsUpTo(InputTaxa, MaxRows)})

Spec == Init /\ [][Next]_vars

\* ---- curation: long reference files, one table ----

MaxCurateLines == 3

MaxCopy == 2

CurateLines ==
    DbLines({T_A, T_AB, T_bAB}, {Num(n) : n \in 1..MaxCopy})
        \cup {[taxa |-> T_kx, copy |-> Num(1)],
              [taxa |-> T_pB, copy |-> NotANumber],
              [taxa |-> T_A, copy |-> NotANumber],
              [taxa |-> T_A, copy |-> NoField]}

InitCurate ==
    Start(SeqsUpTo(CurateLines, MaxCurateLines),
          {MakeTable(<<T_AB>>, <<<<1, 1>>>>)})

SpecCurate == InitCurate /\ [][Next]_vars

\* ---- normalisation: few reference files, many tables ----

MaxNormRows == 2

MaxCount == 1

NormTaxa == {T_AB, T_ABC, T_B}

NormDbs ==
    { << [taxa |-> T_A, copy |-> Num(2)], [taxa |-> T_AB, copy |-> Num(3)] >>,
      << [taxa |-> T_AB, copy |-> Num(1)], [taxa |-> T_full, copy |-> Num(4)] >>,
      << [taxa |-> T_pB, copy |-> Num(2)] >> }

InitNorm ==
    Start(NormDbs,
          UNION {{MakeTable(index, counts) :
                     counts \in [1..Len(index) ->
                                    [1..Len(SampleCols) -> 0..MaxCount]]} :
                 index \in SeqsUpTo(NormTaxa, MaxNormRows)})

SpecNorm == InitNorm /\ [][Next]_vars

\* ---- the key parser alone: many raw strings ----

MaxTokens == 4

Tokens == {Tag("k"), Tag("p"), Tag("c"), <<"A">>, <<" ">>, <<"[">>, <<"]">>,
           <<";">>}

RECURSIVE Concat(_)
Concat(ts) == IF Len(ts) = 0 THEN <<>> ELSE ts[1] \o Concat(Tail(ts))

ParseInputs ==
    {Concat(ts) : ts \in SeqsUpTo(Tokens, MaxTokens)}
        \cup {T_A, T_AB, T_ABC, T_ABsC, T_bAB, T_AC, T_B, T_pB, T_kx, T_full,
              T_fullx}

InitParse ==
    /\ raw \in ParseInputs
    /\ key_items_list = <<>>
    /\ pc = "parse"
    /\ error = "none"
    /\ db_file = <<>>
    /\ input_file = None
    /\ taxa_to_rrna_copy_dict = <<>>
    /\ already_present_dict = <<>>
    /\ count_added = 0
    /\ count_df = None
    /\ input_taxa_map = <<>>
    /\ row_i = 0
    /\ grand_total = None
    /\ OTUs = None
    /\ output_file = NoFile

\* lines 110-120 on raw
ParseDbKey ==
    /\ pc = "parse"
    /\ key_items_list' = DbKeyItems(raw)
    /\ pc' = "parsed_db"
    /\ UNCHANGED <<db_file, input_file, error, taxa_to_rrna_copy_dict,
                   already_present_dict, count_added, count_df,
                   input_taxa_map, row_i, grand_total, OTUs, output_file, raw>>

\* lines 169-178 on raw
ParseInputKey ==
    /\ pc = "parse"
    /\ key_items_list' = InputKeyItems(raw)
    /\ pc' = "parsed_input"
    /\ UNCHANGED <<db_file, input_file, error, taxa_to_rrna_copy_dict,
                   already_present_dict, count_added, count_df,
                   input_taxa_map, row_i, grand_total, OTUs, output_file, raw>>

NextParse == ParseDbKey \/ ParseInputKey

SpecParse == InitParse /\ [][NextParse]_vars

(***************************************************************************)
(* Properties                                                              *)
(***************************************************************************)

NumRanks == Len(taxa_reg_exs)

\* rank r's expression matches somewhere in s
RankMatches(r, s) == search(taxa_reg_exs[r], s).found

\* the first rank whose expression does not match s (NumRanks + 1 if all do)
FirstFailing(s) ==
    Min({r \in 1..(NumRanks + 1) : r = NumRanks + 1 \/ ~RankMatches(r, s)})

\* C6: the parsed result is exactly the labels of ranks 1..m, in order, where
\* m + 1 is the first rank whose rule does not match; no later rank appears,
\* even when its tag occurs in the string.
C6_PrefixMonotonic ==
    pc \in {"parsed_db", "parsed_input"} =>
        LET m == FirstFailing(raw) - 1
        IN  /\ Len(key_items_list) = m
            /\ \A r \in 1..m :
                   LET group == search(taxa_reg_exs[r], raw).group
                   IN  key_items_list[r] =
                           IF pc = "parsed_input" THEN rstrip(group) ELSE group

\* a string whose phylum rule fails while a later rank's rule matches, parsed
\* to the kingdom alone
C6_Witness ==
    /\ pc = "parsed_input"
    /\ FirstFailing(raw) = 2
    /\ \E r \in 3..NumRanks : RankMatches(r, raw)
    /\ Len(key_items_list) = 1

\* _curate_input's rank labels of each taxon of the input tables, computed
\* once
InputKeyItemsOf ==
    [t \in InputTaxa \cup NormTaxa \cup {T_AB} |-> InputKeyItems(t)]

\* the number of ranks of a joined key
KeyRanks(key) == 1 + Cardinality({i \in 1..Len(key) : key[i] = ";"})

\* the positions of the index column that the loop of _curate_input has
\* been over
RowsMapped ==
    IF pc = "map_taxa" \/ (pc = "aborted" /\ error = "RuntimeError")
    THEN 1..(row_i - 1)
    ELSE IF pc \in {"divide", "done"}
              \/ (pc = "aborted" /\ error = "ZeroDivisionError")
    THEN 1..Len(count_df.index)
    ELSE {}

\* the lengths m of the prefixes of key_items whose joined key is in dict
PrefixHits(key_items, dict) ==
    {m \in 1..Len(key_items) : join(Prefix(key_items, m)) \in DOMAIN dict}

\* C1: a taxon whose rank labels have length n >= 1 is mapped to the join of
\* its longest prefix (length n, n-1, ... 1) that is a key of the reference
\* table, is left out of the map exactly when no prefix is one, and is never
\* mapped to a key of more ranks than its own.
C1_LongestPrefix ==
    \A i \in RowsMapped :
        LET taxa_a == count_df.index[i]
            key_items == InputKeyItemsOf[taxa_a]
            hits == PrefixHits(key_items, taxa_to_rrna_copy_dict)
        IN  Len(key_items) >= 1 =>
                IF hits = {}
                THEN taxa_a \notin DOMAIN input_taxa_map
                ELSE /\ taxa_a \in DOMAIN input_taxa_map
                     /\ input_taxa_map[taxa_a] =
                            join(Prefix(key_items, Max(hits)))
                     /\ KeyRanks(input_taxa_map[taxa_a]) <= Len(key_items)

\* a taxon of three ranks mapped to its kingdom, two ranks dropped, while the
\* reference table holds a second key that is no prefix of it
C1_Witness ==
    /\ pc = "map_taxa"
    /\ row_i = 3
    /\ Cardinality(DOMAIN taxa_to_rrna_copy_dict) = 2
    /\ \E i \in RowsMapped :
           /\ count_df.index[i] \in DOMAIN input_taxa_map
           /\ Len(InputKeyItemsOf[count_df.index[i]]) = 3
           /\ KeyRanks(input_taxa_map[count_df.index[i]]) = 1

\* a kept db line whose second field float() rejects
HasCorruptNumber ==
    \E i \in 1..Len(db_file) :
        KeepLine(db_file[i]) /\ db_file[i].copy.kind = "not_a_number"

\* an input taxon that parses to no rank label
HasUnparseableTaxon ==
    \E i \in 1..Len(input_file.index) :
        InputKeyItemsOf[input_file.index[i]] = <<>>

\* C4: the table is written only when curation and reconciliation have both
\* ended without error; with a kept reference line whose number does not
\* parse, or an input taxon of no rank label, normalise is never entered and
\* nothing is written.
C4_NoOutputAfterFatalError ==
    /\ output_file # NoFile => pc = "done" /\ error = "none"
    /\ pc \in {"divide", "done"} =>
           /\ error = "none"
           /\ RowsMapped = 1..Len(input_file.index)
    /\ HasCorruptNumber \/ HasUnparseableTaxon =>
           /\ output_file = NoFile
           /\ pc \notin {"divide", "done"}

\* the run aborted on the second row's taxon, the first row's already mapped,
\* and nothing written
C4_Witness ==
    /\ pc = "aborted"
    /\ error = "RuntimeError"
    /\ row_i = 2
    /\ DOMAIN input_taxa_map # {}
    /\ HasUnparseableTaxon
    /\ output_file = NoFile

\* every value of the map is a key of the reference table
MapRangeInRef ==
    \A t \in DOMAIN input_taxa_map :
        input_taxa_map[t] \in DOMAIN taxa_to_rrna_copy_dict

\* C10: during reconciliation and normalisation every value of the
\* reconciliation map is a key of the reference table, which no step after
\* curation changes, so the lookup of a mapped row's divisor finds its key.
C10_MapRangeInRef ==
    /\ [](pc \in {"map_taxa", "divide", "done"} => MapRangeInRef)
    /\ [][pc # "curate_db" =>
             taxa_to_rrna_copy_dict' = taxa_to_rrna_copy_dict]_vars

\* both rows mapped, one of them to a shortened key, and the division begun
C10_Witness ==
    /\ pc = "divide"
    /\ row_i = 2
    /\ Cardinality(DOMAIN input_taxa_map) = 2
    /\ \E t \in DOMAIN input_taxa_map :
           input_taxa_map[t] # join(InputKeyItemsOf[t])

\* C9: curator and reconciler compute the same key for the same raw string,
\* so an input taxon whose raw string is the taxonomy field of a reference
\* record is mapped to that record's key, by exact match.
C9_SameKeyBothSides ==
    \A i \in RowsMapped :
        LET taxa_a == count_df.index[i]
        IN  (/\ \E l \in 1..Len(db_file) :
                    KeepLine(db_file[l]) /\ db_file[l].taxa = taxa_a
             /\ DbKeyItems(taxa_a) # <<>>) =>
                /\ join(InputKeyItems(taxa_a)) = join(DbKeyItems(taxa_a))
                /\ taxa_a \in DOMAIN input_taxa_map
                /\ input_taxa_map[taxa_a] = join(DbKeyItems(taxa_a))

\* _curate_db has returned
CurationDone ==
    \/ pc \in {"read_input", "map_taxa", "divide", "done"}
    \/ pc = "aborted" /\ error \in {"RuntimeError", "ZeroDivisionError"}

\* the positions, in the kept lines of the db file, of the records whose
\* taxonomy canonicalizes to key
RecordsOfKey(key) ==
    LET kept == keep_input_file(db_file)
    IN  {i \in 1..Len(kept) :
            /\ DbKeyItems(kept[i].taxa) # <<>>
            /\ join(DbKeyItems(kept[i].taxa)) = key}

\* the canonical keys of the kept records of the db file
KeysOfFile ==
    LET kept == keep_input_file(db_file)
    IN  {join(DbKeyItems(kept[i].taxa)) :
            i \in {j \in 1..Len(kept) : DbKeyItems(kept[j].taxa) # <<>>}}

\* C2: the value the reference table holds for a key is the copy number of
\* the first kept record, in file order, that canonicalizes to the key; no
\* later record of the same key overwrites it, whether or not its raw
\* taxonomy text is that of the first.
C2_FirstSeenWins ==
    CurationDone =>
        /\ DOMAIN taxa_to_rrna_copy_dict = KeysOfFile
        /\ \A key \in KeysOfFile :
               LET kept == keep_input_file(db_file)
                   first == kept[Min(RecordsOfKey(key))]
               IN  taxa_to_rrna_copy_dict[key] = Frac(first.copy.value, 1)

\* the duplicate count reported for key: its entry of already_present_dict,
\* none when it has no entry
ReportedDuplicates(key) ==
    IF key \in DOMAIN already_present_dict
    THEN already_present_dict[key]
    ELSE 0

\* C3: the duplicate count reported for a key is the number of kept records
\* that canonicalized to it after the first one (two records of one key give
\* a count of 1), and only keys of the file are reported.
C3_DuplicateCount ==
    CurationDone =>
        /\ DOMAIN already_present_dict \subseteq KeysOfFile
        /\ \A key \in KeysOfFile :
               ReportedDuplicates(key) = Cardinality(RecordsOfKey(key)) - 1

\* the positions of the sample columns of the input table
SampleColumns == 1..(Len(input_file.columns) - 1)

\* x = a / b, for fractions with b # 0, by cross multiplication
IsQuotient(x, a, b) == x.d # 0 /\ x.n * a.d * b.n = a.n * b.d * x.d

\* avg is the arithmetic mean of the values of dict
IsMean(avg, dict) ==
    LET keys == DOMAIN dict
        total == SumValues(dict, keys)
    IN  avg.d # 0 /\ avg.n * total.d * Cardinality(keys) = total.n * avg.d

\* C7: every numeric cell of every row, rows of one raw taxon included, is
\* divided exactly once, by ref[map[taxon]] when the row's raw taxon is in the
\* reconciliation map and by the mean of the reference table's values
\* otherwise: while the loop runs, the rows before row_i are divided and the
\* others still hold their counts.
C7_DividedOnce ==
    pc = "divide" =>
        \A i \in 1..Len(input_file.index) :
            \A j \in SampleColumns :
                LET taxon == input_file.index[i]
                    cell == count_df.data[i][j]
                    count == input_file.data[i][j]
                IN  IF i >= row_i THEN cell = count
                    ELSE IF taxon \in DOMAIN input_taxa_map
                    THEN IsQuotient(cell, count,
                             taxa_to_rrna_copy_dict[input_taxa_map[taxon]])
                    ELSE /\ IsMean(grand_total, taxa_to_rrna_copy_dict)
                         /\ IsQuotient(cell, count, grand_total)

\* two rows of the same raw taxon, mapped to a key of copy number other than
\* one, both divided, with counts that are not zero
C7_Witness ==
    /\ pc = "divide"
    /\ Len(count_df.index) = 2
    /\ row_i = 3
    /\ count_df.index[1] = count_df.index[2]
    /\ count_df.index[1] \in DOMAIN input_taxa_map
    /\ taxa_to_rrna_copy_dict[input_taxa_map[count_df.index[1]]] # Frac(1, 1)
    /\ \A i \in 1..2 : input_file.data[i][1].n # 0

\* C8: the output has the rows of the input in their order with their index
\* values, the columns of the input in their order with the passthrough
\* column last, and the passthrough column's values unchanged.
C8_FramePreserved ==
    pc = "done" =>
        LET out == output_file[1]
            ncol == Len(input_file.columns)
        IN  /\ out.index = input_file.index
            /\ out.columns = input_file.columns
            /\ Len(out.data) = Len(input_file.data)
            /\ \A i \in 1..Len(out.data) :
                   /\ Len(out.data[i]) = ncol
                   /\ out.data[i][ncol] = input_file.data[i][ncol]

\* a table of two rows written with a numeric cell that differs from the
\* input's
C8_Witness ==
    /\ pc = "done"
    /\ Len(output_file[1].index) = 2
    /\ \E i \in 1..2 : \E j \in SampleColumns :
           output_file[1].data[i][j] # input_file.data[i][j]

\* C5: when a sample column sums to zero after the divisors are applied, the
\* normaliser does not write the undefined result of the division by that
\* sum into the output table.
C5_ZeroColumnNotWritten ==
    [][pc = "divide" /\ pc' = "done" =>
          \A j \in 1..Len(count_df.columns) :
              ColumnSum(count_df, j, Len(count_df.index)) = Frac(0, 1) =>
                  \A i \in 1..Len(count_df.index) :
                      output_file'[1].data[i][j] # NaN]_vars

====
